---- MODULE Spec2Model ----
(***************************************************************************)
(* Model of the cookie_fetch command: `fetch` and `proxy` of               *)
(* src/src/cookie_fetch.rs, running as concurrent tasks against one        *)
(* CookieClientPool.                                                       *)
(*                                                                         *)
(* The module crate::cookie_client (CookieClientPool, CookieClient,        *)
(* RedirectPolicy) is not among the sources; the pool, the per-client jar  *)
(* and policy slot and the redirect handling of a send are modelled from   *)
(* the specification (sections 3, 4.1, 4.2, 4.4).  The HTTP server and the *)
(* cookie jar's validation are the environment: their answers are drawn    *)
(* with \E.                                                                *)
(*                                                                         *)
(* Spec, SpecJar, FairSpec and SpecCancel take fetch from one await to the *)
(* next in one step; SpecGuards follows the same code view by view.        *)
(***************************************************************************)
EXTENDS Integers, Sequences, FiniteSets, TLC

\* ------------------------------------------------------------------ bounds
NumClients == 2
NumFetches == 3
\* the largest `max` a caller passes in redirect: {type: "limited", max}
MaxRedirectOpt == 1
\* the hop limit of the default redirect policy (implementation-chosen)
DefaultMaxHops == 1

Clients == 1..NumClients
Fetches == 1..NumFetches

Hosts == {"a", "b"}
CookieNames == {"k1", "k2"}
BadUrl == "::"
PayloadTypes == {"binary", "text", "discard"}

\* The value fetch f injects for each of its cookies, and the value a server
\* sets: distinct tags, so that a cookie's origin can be read off its value.
ValueOf(f) == f
ServerValue == NumFetches + 1

\* ------------------------------------------------------------- pure parts
\* reqwest::Url::parse, on the urls of the model
UrlParses(u) == u \in {"http://a/", "http://b/"}
UrlHost(u) == IF u = "http://a/" THEN "a" ELSE "b"
\* Url::to_string
UrlString(h) == IF h = "a" THEN "http://a/" ELSE "http://b/"

\* RedirectPolicy::none() and RedirectPolicy::limited(max)
PolicyNone == [kind |-> "none", max |-> 0]
PolicyLimited(m) == [kind |-> "limited", max |-> m]
PolicyDefault == PolicyLimited(DefaultMaxHops)

\* options.redirect: None, Some(Redirect::None), Some(Redirect::Limited{max})
RedirectOpts ==
    {[set |-> FALSE, kind |-> "none", max |-> 0]}
    \cup {[set |-> TRUE, kind |-> "none", max |-> 0]}
    \cup {[set |-> TRUE, kind |-> "limited", max |-> m] : m \in 0..MaxRedirectOpt}

\* The inputs a run draws from.  The callers' arguments and the servers'
\* answers are unbounded; each specification below fixes, in the variable
\* `scope`, the finite sets they are drawn from and the clients the pool was
\* constructed with.
\* PoolScope: two clients and concurrent fetches, one cookie name, one host.
PoolScope ==
    [clients |-> Clients,
     urls |-> {"http://a/", BadUrl},
     rtypes |-> {"binary"},
     names |-> {"k1"},
     redirects |-> {r \in RedirectOpts : r.max = 0},
     targets |-> {"a"},
     setcookies |-> {{}, {"k1"}}]
\* LiveScope: PoolScope with servers that set no cookies.
LiveScope == [PoolScope EXCEPT !.setcookies = {{}}]
\* JarScope: a pool of one client used by one fetch after the other; two
\* cookie names, redirects to a second host, every redirect option.
JarScope ==
    [clients |-> {1},
     urls |-> {"http://a/", BadUrl},
     rtypes |-> PayloadTypes,
     names |-> CookieNames,
     redirects |-> RedirectOpts,
     targets |-> Hosts,
     setcookies |-> {{}, {"k1"}}]

\* GuardScope: PoolScope with the redirect option absent or none.
GuardScope ==
    [PoolScope EXCEPT !.redirects = {r \in RedirectOpts : r.kind = "none"}]

EmptyJar == [k \in {} |-> 0]
EmptyCookies == [n \in {} |-> 0]

\* faulty variant: the jar keeps only the cookies of the latest insertion
JarInsertFresh(j, h, names, v) == [k \in {h} \X names |-> v]

\* CookieStore::insert_raw / the transport's Set-Cookie merge, when accepted:
\* each cookie is stored under (host of the url, name), replacing an older one
JarInsert(j, h, names, v) ==
    [k \in DOMAIN j \cup ({h} \X names) |-> IF k \in {h} \X names THEN v ELSE j[k]]

NamesIn(j) == {k[2] : k \in DOMAIN j}

\* faulty variant: only the cookies stored for host "a" are collected
SnapshotsOfOneHost(j) ==
    LET d == {k \in DOMAIN j : k[1] = "a"}
    IN {s \in [{k[2] : k \in d} -> {j[k] : k \in d}] :
            \A n \in {k[2] : k \in d} : \E k \in d : k[2] = n /\ j[k] = s[n]}

\* proxy, lines 156-160: iter_any() visits every cookie of the jar and the
\* pairs (name, value) are collected into a HashMap; of two cookies with one
\* name the one visited last stays, and the order of the visit is the jar's.
Snapshots(j) ==
    {s \in [NamesIn(j) -> {j[k] : k \in DOMAIN j}] :
        \A n \in NamesIn(j) : \E k \in DOMAIN j : k[2] = n /\ j[k] = s[n]}

\* options.redirect: None
RedirectUnset == [set |-> FALSE, kind |-> "none", max |-> 0]

\* What a fetch returns: a Response (kind "ok") or an Error (kind "err").
\* `of` is the fetch that returned it; `client`, `sends`, `hops`, `injected`,
\* `consulted` and `merged` are its history: the client it held, the number of
\* its send() calls, the redirects its send followed, the cookies it inserted,
\* the policy its send read on a redirect, the cookies (host, name) the jar
\* took from the Set-Cookie headers of its exchange.  `redirect` is the
\* options.redirect of a fetch that returned before reading it.
NoResult == [kind |-> "none", of |-> 0, url |-> "", status |-> 0, msg |-> "",
             cookies |-> EmptyCookies, body |-> "absent", sends |-> 0, hops |-> 0,
             consulted |-> {}, client |-> {}, injected |-> {}, merged |-> {},
             redirect |-> RedirectUnset]
\* Error::from_std_error
ErrorFromStd(m) == [NoResult EXCEPT !.kind = "err", !.msg = m]
\* Error::from(reqwest::Error): the url is Some when the failure knows it
ErrorFrom(u, m) == [NoResult EXCEPT !.kind = "err", !.url = u, !.msg = m]
\* Response { url, status, headers, cookies, body }
ResponseOf(u, st, ck, b) ==
    [NoResult EXCEPT !.kind = "ok", !.url = u, !.status = st, !.cookies = ck, !.body = b]

VARIABLES
    scope,     \* the sets the inputs are drawn from (fixed by Init)
    pc,        \* where each fetch is: idle, waiting, sending, body, done
    url,       \* the url argument of each fetch, then the url of the current hop
    guard,     \* the client each fetch holds: {} or {c}
    free,      \* the pool's free-list
    waiters,   \* the pool's wait queue
    jar,       \* the cookie jar of each client
    policy,    \* the redirect-policy slot of each client
    rtype,     \* response_type
    hops,      \* redirects followed by the current send
    snap,      \* the cookies collected by proxy
    status,    \* the status of the response proxy received
    ret,       \* the value the last step returned to a caller (NoResult when
               \* the last step was not a return)
    \* history, read by the properties only
    used,      \* the client each fetch acquired: {} or {c}
    sends,     \* how many times each fetch in flight called send()
    everInjected, \* the names fetches inserted into each client's jar
    policyBy,  \* the latest redirect option applied to each client, with the
               \* fetch that carried it: {} or {<<f, r>>}
    consulted, \* the policy the send of each fetch in flight read on a redirect,
               \* with policyBy at that moment: {} or {<<p, by>>}
    merged,    \* the cookies (host, name) the jar took from Set-Cookie headers
               \* during the exchange of each fetch in flight
    \* the exclusive views and the operations on the jars, followed step by
    \* step in SpecGuards only
    jarLock,   \* who holds the exclusive view of each client's jar
    polLock,   \* who holds the exclusive view of each client's policy slot
    busy,      \* the operations in progress on each jar
    todo       \* the cookies of options.cookies each fetch has still to insert

vars == <<scope, pc, url, guard, free, waiters, jar, policy, rtype, hops, snap, status, ret,
          used, sends, everInjected, policyBy, consulted, merged,
          jarLock, polLock, busy, todo>>

\* what the steps that take fetch from one await to the next leave alone
views == <<scope, jarLock, polLock, busy, todo>>

InitIn(sc) ==
    /\ scope = sc
    /\ pc = [f \in Fetches |-> "idle"]
    /\ url = [f \in Fetches |-> BadUrl]
    /\ guard = [f \in Fetches |-> {}]
    /\ free = sc.clients
    /\ waiters = <<>>
    /\ jar = [c \in Clients |-> EmptyJar]
    /\ policy = [c \in Clients |-> PolicyDefault]
    /\ rtype = [f \in Fetches |-> "binary"]
    /\ hops = [f \in Fetches |-> 0]
    /\ snap = [f \in Fetches |-> EmptyCookies]
    /\ status = [f \in Fetches |-> 0]
    /\ ret = NoResult
    /\ used = [f \in Fetches |-> {}]
    /\ sends = [f \in Fetches |-> 0]
    /\ everInjected = [c \in Clients |-> {}]
    /\ policyBy = [c \in Clients |-> {}]
    /\ consulted = [f \in Fetches |-> {}]
    /\ merged = [f \in Fetches |-> {}]
    /\ jarLock = [c \in Clients |-> {}]
    /\ polLock = [c \in Clients |-> {}]
    /\ busy = [c \in Clients |-> {}]
    /\ todo = [f \in Fetches |-> {}]

Init == InitIn(PoolScope)
InitJar == InitIn(JarScope)
InitLive == InitIn(LiveScope)
InitGuards == InitIn(GuardScope)

ClientOf(f) == CHOOSE c \in guard[f] : TRUE

\* ---------------------------------------------------------------- the pool
\* faulty variant: get() hands out any client of the pool, held or not
AvailableAny == scope.clients

\* the clients CookieClientPool::get may hand out: those of the free-list
Available == free

\* get() is served at once: nobody is queued and a client is free
GetReady == waiters = <<>> /\ Available # {}

\* faulty variant: a released client goes to any queued caller
NextWaiterAny(f) == \E i \in 1..Len(waiters) : waiters[i] = f

\* the queued caller a released client goes to: the head of the wait queue
NextWaiter(f) == waiters # <<>> /\ Head(waiters) = f

\* fetch f holds client c from this step on
Hold(f, c) ==
    /\ guard' = [guard EXCEPT ![f] = {c}]
    /\ free' = free \ {c}

\* the pooled-client handle of fetch f going out of scope: c is free again
Release(f, c) ==
    /\ guard' = [guard EXCEPT ![f] = {}]
    /\ free' = free \cup {c}

\* faulty variant: fetch returns and its client stays held
FetchReturnLeak(f, c, r) ==
    /\ pc' = [pc EXCEPT ![f] = "done"]
    /\ ret' = [r EXCEPT !.of = f, !.client = {c}, !.sends = sends[f], !.hops = hops[f],
                         !.merged = merged[f] \cup @]
    /\ Hold(f, c)
    /\ url' = [url EXCEPT ![f] = BadUrl]
    /\ rtype' = [rtype EXCEPT ![f] = "binary"]
    /\ hops' = [hops EXCEPT ![f] = 0]
    /\ snap' = [snap EXCEPT ![f] = EmptyCookies]
    /\ status' = [status EXCEPT ![f] = 0]
    /\ sends' = [sends EXCEPT ![f] = 0]
    /\ consulted' = [consulted EXCEPT ![f] = {}]
    /\ merged' = [merged EXCEPT ![f] = {}]

\* fetch f, holding c, returns r: `client` and the other locals of fetch and
\* proxy go out of scope on every return
FetchReturn(f, c, r) ==
    /\ pc' = [pc EXCEPT ![f] = "done"]
    /\ ret' = [r EXCEPT !.of = f, !.client = {c}, !.sends = sends[f], !.hops = hops[f],
                         !.merged = merged[f] \cup @]
    /\ Release(f, c)
    /\ url' = [url EXCEPT ![f] = BadUrl]
    /\ rtype' = [rtype EXCEPT ![f] = "binary"]
    /\ hops' = [hops EXCEPT ![f] = 0]
    /\ snap' = [snap EXCEPT ![f] = EmptyCookies]
    /\ status' = [status EXCEPT ![f] = 0]
    /\ sends' = [sends EXCEPT ![f] = 0]
    /\ consulted' = [consulted EXCEPT ![f] = {}]
    /\ merged' = [merged EXCEPT ![f] = {}]

\* faulty variant: the future of fetch f is dropped and its client stays held
FetchAbandonLeak(f, c) ==
    /\ pc' = [pc EXCEPT ![f] = "abandoned"]
    /\ ret' = NoResult
    /\ Hold(f, c)
    /\ url' = [url EXCEPT ![f] = BadUrl]
    /\ rtype' = [rtype EXCEPT ![f] = "binary"]
    /\ hops' = [hops EXCEPT ![f] = 0]
    /\ snap' = [snap EXCEPT ![f] = EmptyCookies]
    /\ status' = [status EXCEPT ![f] = 0]
    /\ sends' = [sends EXCEPT ![f] = 0]
    /\ consulted' = [consulted EXCEPT ![f] = {}]
    /\ merged' = [merged EXCEPT ![f] = {}]

\* the future of fetch f, holding c, is dropped at an await: nothing is
\* returned; `client` and the other locals of fetch and proxy are dropped
FetchAbandon(f, c) ==
    /\ pc' = [pc EXCEPT ![f] = "abandoned"]
    /\ ret' = NoResult
    /\ Release(f, c)
    /\ url' = [url EXCEPT ![f] = BadUrl]
    /\ rtype' = [rtype EXCEPT ![f] = "binary"]
    /\ hops' = [hops EXCEPT ![f] = 0]
    /\ snap' = [snap EXCEPT ![f] = EmptyCookies]
    /\ status' = [status EXCEPT ![f] = 0]
    /\ sends' = [sends EXCEPT ![f] = 0]
    /\ consulted' = [consulted EXCEPT ![f] = {}]
    /\ merged' = [merged EXCEPT ![f] = {}]

\* a step of fetch or proxy that is not a return
NoReturn == ret' = NoResult

\* ------------------------------------------------------------------- fetch
\* builder.send() (lines 100 and 143): the request for url u is handed to the
\* transport and fetch awaits it in proxy, holding c
IssueSend(f, c, u, rt) ==
    /\ pc' = [pc EXCEPT ![f] = "sending"]
    /\ url' = [url EXCEPT ![f] = u]
    /\ rtype' = [rtype EXCEPT ![f] = rt]
    /\ sends' = [sends EXCEPT ![f] = @ + 1]
    /\ Hold(f, c)
    /\ NoReturn
    /\ UNCHANGED <<hops, snap, status, consulted, merged>>

\* faulty variant: the url is parsed after the redirect option was applied
ParseFailsLate(f, c, u) ==
    /\ ~UrlParses(u)
    /\ policy' = [policy EXCEPT ![c] = PolicyNone]
    /\ FetchReturn(f, c, ErrorFromStd("parse"))
    /\ UNCHANGED <<jar, everInjected, policyBy>>

\* lines 91-94: the url does not parse
ParseFails(f, c, u) ==
    /\ ~UrlParses(u)
    /\ FetchReturn(f, c, ErrorFromStd("parse"))
    /\ UNCHANGED <<jar, policy, everInjected, policyBy>>

\* lines 96-103: options is None: a GET is sent and proxied as Binary
NoOptions(f, c, u) ==
    /\ UrlParses(u)
    /\ IssueSend(f, c, u, "binary")
    /\ UNCHANGED <<jar, policy, everInjected, policyBy>>

\* faulty variant: one jar behind every client
StoreOfShared(f, c) == CHOOSE x \in scope.clients : TRUE

\* the jar client.cookie_store() gives fetch f, holding c
StoreOf(f, c) == c

\* faulty variant: a refused cookie rolls the earlier insertions back
InsertFailsRollback(f, c, u, ck, r) ==
    \E done \in SUBSET ck :
        /\ done # ck
        /\ FetchReturn(f, c, [ErrorFromStd("cookie") EXCEPT !.injected = done,
                                                            !.redirect = r])
        /\ UNCHANGED <<jar, everInjected, policy, policyBy>>

\* faulty variant: options.redirect is applied before the cookies are inserted
InsertFailsAfterPolicy(f, c, u, ck, r) ==
    \E done \in SUBSET ck :
        /\ done # ck
        /\ jar' = [jar EXCEPT ![c] = JarInsert(@, UrlHost(u), done, ValueOf(f))]
        /\ everInjected' = [everInjected EXCEPT ![c] = @ \cup done]
        /\ policy' = [policy EXCEPT ![c] =
                IF ~r.set THEN @
                ELSE IF r.kind = "none" THEN PolicyNone ELSE PolicyLimited(r.max)]
        /\ policyBy' = [policyBy EXCEPT ![c] = IF r.set THEN {<<f, r>>} ELSE @]
        /\ FetchReturn(f, c, [ErrorFromStd("cookie") EXCEPT !.injected = done,
                                                            !.redirect = r])

\* lines 107-113: insert_raw refuses a cookie of options.cookies after those
\* of `done` were inserted (the map is a HashMap: any order); fetch returns
\* with options.redirect r not read yet
InsertFails(f, c, u, ck, r) ==
    \E done \in SUBSET ck :
        /\ done # ck
        /\ jar' = [jar EXCEPT ![StoreOf(f, c)] = JarInsert(@, UrlHost(u), done, ValueOf(f))]
        /\ everInjected' = [everInjected EXCEPT ![StoreOf(f, c)] = @ \cup done]
        /\ FetchReturn(f, c, [ErrorFromStd("cookie") EXCEPT !.injected = done,
                                                            !.redirect = r])
        /\ UNCHANGED <<policy, policyBy>>

\* faulty variant: Redirect::Limited{max} written as a limit of max + 1 hops
PolicyOfOffByOne(r) == IF r.kind = "none" THEN PolicyNone ELSE PolicyLimited(r.max + 1)

\* faulty variant: Redirect::None written as a limit of no hops
PolicyOfNoneAsLimit(r) == PolicyLimited(r.max)

\* RedirectPolicy::none() / RedirectPolicy::limited(max) for a Redirect value
PolicyOf(r) == IF r.kind = "none" THEN PolicyNone ELSE PolicyLimited(r.max)

\* faulty variant: a fetch without a redirect option restores the default
PolicyAfterReset(p, r) == IF r.set THEN PolicyOf(r) ELSE PolicyDefault

\* lines 117-123: the policy slot after options.redirect r is applied
PolicyAfter(p, r) == IF r.set THEN PolicyOf(r) ELSE p

\* lines 107-143: every cookie of options.cookies is inserted (None and an
\* empty map both insert nothing), options.redirect is applied to the client's
\* policy slot, the request is built and sent
WithOptions(f, c, u, rt, ck, r) ==
    /\ jar' = [jar EXCEPT ![StoreOf(f, c)] = JarInsert(@, UrlHost(u), ck, ValueOf(f))]
    /\ everInjected' = [everInjected EXCEPT ![StoreOf(f, c)] = @ \cup ck]
    /\ policy' = [policy EXCEPT ![c] = PolicyAfter(@, r)]
    /\ policyBy' = [policyBy EXCEPT ![c] = IF r.set THEN {<<f, r>>} ELSE @]
    /\ IssueSend(f, c, u, rt)

\* fetch, lines 91-143, run by f with client c up to its next await
Run(f, c, u) ==
    \/ ParseFails(f, c, u)
    \/ NoOptions(f, c, u)
    \/ /\ UrlParses(u)
       /\ \E ck \in SUBSET scope.names, r \in scope.redirects : InsertFails(f, c, u, ck, r)
    \/ /\ UrlParses(u)
       /\ \E rt \in scope.rtypes, ck \in SUBSET scope.names, r \in scope.redirects :
            WithOptions(f, c, u, rt, ck, r)

\* fetch is invoked with url u and reaches state.pool.get().await (line 90):
\* a free client is taken at once unless earlier callers are waiting, and
\* fetch runs on; otherwise the call suspends at the end of the wait queue
Fetch(f) ==
    /\ UNCHANGED views
    /\ pc[f] = "idle"
    /\ \E u \in scope.urls :
        \/ /\ GetReady
           /\ \E c \in Available :
                /\ used' = [used EXCEPT ![f] = {c}]
                /\ Run(f, c, u)
           /\ UNCHANGED waiters
        \/ /\ ~GetReady
           /\ waiters' = Append(waiters, f)
           /\ pc' = [pc EXCEPT ![f] = "waiting"]
           /\ url' = [url EXCEPT ![f] = u]
           /\ NoReturn
           /\ UNCHANGED <<guard, free, jar, policy, rtype, hops, snap, status, used,
                          sends, everInjected, policyBy, consulted, merged>>

\* a released client is handed to the first waiter, whose fetch resumes
PoolWake(f) ==
    /\ UNCHANGED views
    /\ pc[f] = "waiting"
    /\ NextWaiter(f)
    /\ waiters' = Tail(waiters)
    /\ \E c \in Available :
        /\ used' = [used EXCEPT ![f] = {c}]
        /\ Run(f, c, url[f])

\* ------------------------------------------------ the transport and proxy
\* Set-Cookie headers of one response: the jar of the sending client merges
\* them under the host that answered
\* the jar of the client of fetch f after the response to its current hop
JarAfterResponse(f, sc) ==
    [jar EXCEPT ![ClientOf(f)] = JarInsert(@, UrlHost(url[f]), sc, ServerValue)]

\* the Set-Cookie cookies the jar took during the exchange of fetch f, after
\* the response to its current hop
MergedAfterResponse(f, sc) ==
    [merged EXCEPT ![f] = @ \cup ({UrlHost(url[f])} \X sc)]

\* faulty variant: the jar is collected before the outcome of the send is in
ProxyResponseStale(f, j, st) ==
    /\ \E s \in Snapshots(jar[ClientOf(f)]) : snap' = [snap EXCEPT ![f] = s]
    /\ status' = [status EXCEPT ![f] = st]
    /\ pc' = [pc EXCEPT ![f] = "body"]
    /\ NoReturn

\* proxy, lines 151-164, the send resolved Ok(res): the jar is collected into
\* `cookies`, url and status are read off the response; the body is awaited next
ProxyResponse(f, j, st) ==
    /\ \E s \in Snapshots(j) : snap' = [snap EXCEPT ![f] = s]
    /\ status' = [status EXCEPT ![f] = st]
    /\ pc' = [pc EXCEPT ![f] = "body"]
    /\ NoReturn

\* faulty variant: a failed exchange is sent again instead of returned
ProxyErrorRetry(f, m, cons) ==
    /\ pc' = [pc EXCEPT ![f] = "sending"]
    /\ sends' = [sends EXCEPT ![f] = @ + 1]
    /\ NoReturn
    /\ UNCHANGED <<guard, free, url, rtype, hops, snap, status, consulted, merged>>

\* proxy, lines 151-154, the send resolved Err(e): Error::from(e), whose url
\* is that of the failing request when the failure knows it
ProxyError(f, m, cons) ==
    \E u \in {url[f], ""} :
        FetchReturn(f, ClientOf(f),
                    [ErrorFrom(u, m) EXCEPT !.consulted = cons])

\* the server answers the current hop with a final (non-3xx) response
ServerFinal(f) ==
    /\ UNCHANGED views
    /\ pc[f] = "sending"
    /\ \E sc \in scope.setcookies :
        /\ jar' = JarAfterResponse(f, sc)
        /\ merged' = MergedAfterResponse(f, sc)
        /\ ProxyResponse(f, jar'[ClientOf(f)], 200)
    /\ UNCHANGED <<url, guard, free, waiters, policy, rtype, hops, used, sends,
                   everInjected, policyBy, consulted>>

\* the policy the send of fetch f reads on a redirect: the slot of its client
PolicyInForce(f) == policy[ClientOf(f)]

\* the policy slot is read on a redirect
Consulted(f) == {<<PolicyInForce(f), policyBy[ClientOf(f)]>>}

\* the server answers the current hop with a 3xx; the policy slot is read:
\* Follow-none hands the 3xx to proxy as the response
ServerRedirectNone(f) ==
    /\ UNCHANGED views
    /\ pc[f] = "sending"
    /\ PolicyInForce(f).kind = "none"
    /\ consulted' = [consulted EXCEPT ![f] = Consulted(f)]
    /\ \E sc \in scope.setcookies :
        /\ jar' = JarAfterResponse(f, sc)
        /\ merged' = MergedAfterResponse(f, sc)
        /\ ProxyResponse(f, jar'[ClientOf(f)], 302)
    /\ UNCHANGED <<url, guard, free, waiters, policy, rtype, hops, used, sends,
                   everInjected, policyBy>>

\* Follow-limited(max) with hop_count < max: the hop is counted and the
\* request re-issued to the Location target
ServerRedirectFollow(f) ==
    /\ UNCHANGED views
    /\ pc[f] = "sending"
    /\ PolicyInForce(f).kind = "limited"
    /\ hops[f] < PolicyInForce(f).max
    /\ consulted' = [consulted EXCEPT ![f] = Consulted(f)]
    /\ \E sc \in scope.setcookies :
        /\ jar' = JarAfterResponse(f, sc)
        /\ merged' = MergedAfterResponse(f, sc)
    /\ hops' = [hops EXCEPT ![f] = @ + 1]
    /\ \E h \in scope.targets : url' = [url EXCEPT ![f] = UrlString(h)]
    /\ NoReturn
    /\ UNCHANGED <<pc, guard, free, waiters, policy, rtype, snap, status, used, sends,
                   everInjected, policyBy>>

\* Follow-limited(max) with hop_count >= max: the send fails
ServerRedirectLimit(f) ==
    /\ UNCHANGED views
    /\ pc[f] = "sending"
    /\ PolicyInForce(f).kind = "limited"
    /\ hops[f] >= PolicyInForce(f).max
    /\ \E sc \in scope.setcookies, u \in {url[f], ""} :
        /\ jar' = JarAfterResponse(f, sc)
        /\ FetchReturn(f, ClientOf(f),
                       [ErrorFrom(u, "redirect-limit")
                            EXCEPT !.consulted = Consulted(f),
                                   !.merged = {UrlHost(url[f])} \X sc])
    /\ UNCHANGED <<waiters, policy, used, everInjected, policyBy>>

\* connection, TLS, timeout, DNS: the send fails
TransportFails(f) ==
    /\ UNCHANGED views
    /\ pc[f] = "sending"
    /\ ProxyError(f, "transport", consulted[f])
    /\ UNCHANGED <<waiters, jar, policy, used, everInjected, policyBy>>

\* faulty variant: Discard reads the body like Binary
BodyOfAlwaysRead(rt) == IF rt = "discard" THEN "binary" ELSE rt

\* proxy, lines 166-176: the body the response carries for response_type
BodyOf(rt) == IF rt = "discard" THEN "absent" ELSE rt

\* proxy, lines 166-186: the body is read (Binary, Text) or not (Discard) and
\* the Response is returned
ProxyBody(f) ==
    /\ UNCHANGED views
    /\ pc[f] = "body"
    /\ FetchReturn(f, ClientOf(f),
                   [ResponseOf(url[f], status[f], snap[f], BodyOf(rtype[f]))
                        EXCEPT !.consulted = consulted[f]])
    /\ UNCHANGED <<waiters, jar, policy, used, everInjected, policyBy>>

\* proxy, lines 169 and 173: res.bytes() or res.text() fails
ProxyBodyFails(f) ==
    /\ UNCHANGED views
    /\ pc[f] = "body"
    /\ rtype[f] # "discard"
    /\ ProxyError(f, "body", consulted[f])
    /\ UNCHANGED <<waiters, jar, policy, used, everInjected, policyBy>>

Next ==
    \E f \in Fetches :
        \/ Fetch(f)
        \/ PoolWake(f)
        \/ ServerFinal(f)
        \/ ServerRedirectNone(f)
        \/ ServerRedirectFollow(f)
        \/ ServerRedirectLimit(f)
        \/ TransportFails(f)
        \/ ProxyBody(f)
        \/ ProxyBodyFails(f)

\* the caller abandons fetch f while it is suspended in proxy, awaiting the
\* send (lines 151, 97-102, 143) or the body (lines 167, 171)
Cancel(f) ==
    /\ UNCHANGED views
    /\ pc[f] \in {"sending", "body"}
    /\ FetchAbandon(f, ClientOf(f))
    /\ UNCHANGED <<waiters, jar, policy, used, everInjected, policyBy>>

NextCancel == Next \/ \E f \in Fetches : Cancel(f)

\* concurrent fetches against a pool of NumClients clients
Spec == Init /\ [][Next]_vars
\* concurrent fetches that callers may abandon
SpecCancel == Init /\ [][NextCancel]_vars
\* successive fetches against a pool of one client
SpecJar == InitJar /\ [][Next]_vars

\* What the runtime and the servers guarantee: a fetch whose await is ready is
\* resumed (a waiter for which a client is free; a fetch whose transport call
\* or body read has an outcome), and every transport call has an outcome.
Resume(f) ==
    \/ PoolWake(f)
    \/ ServerFinal(f)
    \/ ServerRedirectNone(f)
    \/ ServerRedirectFollow(f)
    \/ ServerRedirectLimit(f)
    \/ TransportFails(f)
    \/ ProxyBody(f)
    \/ ProxyBodyFails(f)
Fairness == \A f \in Fetches : WF_vars(Resume(f))
FairSpec == InitLive /\ [][Next]_vars /\ Fairness

\* ------------------------------------- fetch and the send, view by view
\* The same code followed at a finer grain: each taking and dropping of an
\* exclusive view (client.cookie_store(), client.redirect_policy()), each
\* insert_raw, each Set-Cookie merge and policy read of the transport, and
\* the collection of the jar are steps of their own, so that the operations
\* of concurrent fetches and of their sends interleave.

\* who holds a view: the code of fetch f, or the transport running its send
ByFetch(f) == <<"fetch", f>>
BySend(f) == <<"send", f>>

\* client.cookie_store() and client.redirect_policy() give exclusive views:
\* the caller gets one when nobody holds one
JarLockFree(c) == jarLock[c] = {}
PolLockFree(c) == polLock[c] = {}

\* faulty variant: the view of the jar lives to the end of fetch
JarGuardKept(f) == {ByFetch(f)}

\* line 115: `cookies_store` goes out of scope at the end of the if-block;
\* the holders of the view of the jar that remain
JarGuardAfterLoop(f) == {}

\* line 123: `redirect_policy` goes out of scope at the end of the if-block
PolicyGuardAfterBlock(f) == {}

\* an operation on a jar starts and ends
OpBegins(st, op) == busy' = [busy EXCEPT ![st] = @ \cup {op}]
OpEnds(st, op) == busy' = [busy EXCEPT ![st] = @ \ {op}]

\* line 90: fetch is invoked with url u and awaits state.pool.get()
Acquire(f) ==
    /\ pc[f] = "idle"
    /\ \E u \in scope.urls : url' = [url EXCEPT ![f] = u]
    /\ \/ /\ GetReady
          /\ \E c \in Available :
                /\ Hold(f, c)
                /\ used' = [used EXCEPT ![f] = {c}]
          /\ pc' = [pc EXCEPT ![f] = "options"]
          /\ UNCHANGED waiters
       \/ /\ ~GetReady
          /\ waiters' = Append(waiters, f)
          /\ pc' = [pc EXCEPT ![f] = "waiting"]
          /\ UNCHANGED <<guard, free, used>>
    /\ NoReturn
    /\ UNCHANGED <<jar, policy, rtype, hops, snap, status, sends, everInjected,
                   policyBy, consulted, merged, views>>

\* line 90: a released client is handed to the first waiter
Resumed(f) ==
    /\ pc[f] = "waiting"
    /\ NextWaiter(f)
    /\ waiters' = Tail(waiters)
    /\ \E c \in Available :
        /\ Hold(f, c)
        /\ used' = [used EXCEPT ![f] = {c}]
    /\ pc' = [pc EXCEPT ![f] = "options"]
    /\ NoReturn
    /\ UNCHANGED <<url, jar, policy, rtype, hops, snap, status, sends, everInjected,
                   policyBy, consulted, merged, views>>

\* lines 91-107: the url is parsed and the options are looked at
Options(f) ==
    /\ pc[f] = "options"
    /\ \/ /\ ParseFails(f, ClientOf(f), url[f])
          /\ UNCHANGED <<waiters, used, views>>
       \/ /\ NoOptions(f, ClientOf(f), url[f])
          /\ UNCHANGED <<waiters, used, views>>
       \/ /\ UrlParses(url[f])
          /\ \/ \E ck \in SUBSET scope.names :
                    /\ todo' = [todo EXCEPT ![f] = ck]
                    /\ pc' = [pc EXCEPT ![f] = "cookies"]
             \/ /\ pc' = [pc EXCEPT ![f] = "redirect"]
                /\ UNCHANGED todo
          /\ NoReturn
          /\ UNCHANGED <<scope, url, guard, free, waiters, jar, policy, rtype, hops, snap,
                         status, used, sends, everInjected, policyBy, consulted, merged,
                         jarLock, polLock, busy>>

\* line 108: let mut cookies_store = client.cookie_store()
TakeJar(f) ==
    /\ pc[f] = "cookies"
    /\ JarLockFree(ClientOf(f))
    /\ jarLock' = [jarLock EXCEPT ![ClientOf(f)] = {ByFetch(f)}]
    /\ pc' = [pc EXCEPT ![f] = "loop"]
    /\ NoReturn
    /\ UNCHANGED <<scope, url, guard, free, waiters, jar, policy, rtype, hops, snap, status,
                   used, sends, everInjected, policyBy, consulted, merged, polLock, busy,
                   todo>>

\* line 111: insert_raw is entered for the next cookie of the map
InsertBegin(f) ==
    /\ pc[f] = "loop"
    /\ todo[f] # {}
    /\ OpBegins(StoreOf(f, ClientOf(f)), <<"insert", f>>)
    /\ pc' = [pc EXCEPT ![f] = "insert"]
    /\ NoReturn
    /\ UNCHANGED <<scope, url, guard, free, waiters, jar, policy, rtype, hops, snap, status,
                   used, sends, everInjected, policyBy, consulted, merged, jarLock, polLock,
                   todo>>

\* lines 111-113: insert_raw stores the cookie, or refuses it and fetch
\* returns, dropping `cookies_store`
InsertEnd(f) ==
    /\ pc[f] = "insert"
    /\ OpEnds(StoreOf(f, ClientOf(f)), <<"insert", f>>)
    /\ \E n \in todo[f] :
        \/ /\ jar' = [jar EXCEPT ![StoreOf(f, ClientOf(f))] =
                            JarInsert(@, UrlHost(url[f]), {n}, ValueOf(f))]
           /\ everInjected' = [everInjected EXCEPT ![StoreOf(f, ClientOf(f))] = @ \cup {n}]
           /\ todo' = [todo EXCEPT ![f] = @ \ {n}]
           /\ pc' = [pc EXCEPT ![f] = "loop"]
           /\ NoReturn
           /\ UNCHANGED <<url, guard, free, rtype, hops, snap, status, sends, consulted,
                          merged, jarLock>>
        \/ /\ FetchReturn(f, ClientOf(f), ErrorFromStd("cookie"))
           /\ jarLock' = [jarLock EXCEPT ![ClientOf(f)] = @ \ {ByFetch(f)}]
           /\ todo' = [todo EXCEPT ![f] = {}]
           /\ UNCHANGED <<jar, everInjected>>
    /\ UNCHANGED <<scope, waiters, policy, used, policyBy, polLock>>

\* line 115: the loop is over
DropJar(f) ==
    /\ pc[f] = "loop"
    /\ todo[f] = {}
    /\ jarLock' = [jarLock EXCEPT ![ClientOf(f)] = JarGuardAfterLoop(f)]
    /\ pc' = [pc EXCEPT ![f] = "redirect"]
    /\ NoReturn
    /\ UNCHANGED <<scope, url, guard, free, waiters, jar, policy, rtype, hops, snap, status,
                   used, sends, everInjected, policyBy, consulted, merged, polLock, busy,
                   todo>>

\* lines 117-143: options.redirect is written through the view of the policy
\* slot, the request is built and sent; fetch awaits the send in proxy
RedirectAndSend(f) ==
    /\ pc[f] = "redirect"
    /\ \E r \in scope.redirects, rt \in scope.rtypes :
        /\ r.set => PolLockFree(ClientOf(f))
        /\ policy' = [policy EXCEPT ![ClientOf(f)] = PolicyAfter(@, r)]
        /\ policyBy' = [policyBy EXCEPT ![ClientOf(f)] = IF r.set THEN {<<f, r>>} ELSE @]
        /\ polLock' = [polLock EXCEPT ![ClientOf(f)] =
                            IF r.set THEN PolicyGuardAfterBlock(f) ELSE @]
        /\ IssueSend(f, ClientOf(f), url[f], rt)
    /\ UNCHANGED <<scope, waiters, jar, used, everInjected, jarLock, busy, todo>>

\* the transport has the response to the current hop and takes the view of
\* the jar to merge its Set-Cookie headers
TransportMergeBegin(f) ==
    /\ pc[f] = "sending"
    /\ JarLockFree(ClientOf(f))
    /\ jarLock' = [jarLock EXCEPT ![ClientOf(f)] = {BySend(f)}]
    /\ OpBegins(StoreOf(f, ClientOf(f)), <<"merge", f>>)
    /\ pc' = [pc EXCEPT ![f] = "merging"]
    /\ NoReturn
    /\ UNCHANGED <<scope, url, guard, free, waiters, jar, policy, rtype, hops, snap, status,
                   used, sends, everInjected, policyBy, consulted, merged, polLock, todo>>

\* the cookies are merged and the view is dropped
TransportMergeEnd(f) ==
    /\ pc[f] = "merging"
    /\ \E sc \in scope.setcookies :
        /\ jar' = [jar EXCEPT ![StoreOf(f, ClientOf(f))] =
                        JarInsert(@, UrlHost(url[f]), sc, ServerValue)]
        /\ merged' = MergedAfterResponse(f, sc)
    /\ OpEnds(StoreOf(f, ClientOf(f)), <<"merge", f>>)
    /\ jarLock' = [jarLock EXCEPT ![ClientOf(f)] = @ \ {BySend(f)}]
    /\ pc' = [pc EXCEPT ![f] = "hop"]
    /\ NoReturn
    /\ UNCHANGED <<scope, url, guard, free, waiters, policy, rtype, hops, snap, status, used,
                   sends, everInjected, policyBy, consulted, polLock, todo>>

\* the response is final: the send resolves Ok and proxy runs on (line 151)
TransportFinal(f) ==
    /\ pc[f] = "hop"
    /\ status' = [status EXCEPT ![f] = 200]
    /\ pc' = [pc EXCEPT ![f] = "collect"]
    /\ NoReturn
    /\ UNCHANGED <<url, guard, free, waiters, jar, policy, rtype, hops, snap, used, sends,
                   everInjected, policyBy, consulted, merged, views>>

\* the response is a 3xx: the transport reads the policy slot through its view
TransportRedirect(f) ==
    /\ pc[f] = "hop"
    /\ PolLockFree(ClientOf(f))
    /\ \/ /\ PolicyInForce(f).kind = "none"
          /\ consulted' = [consulted EXCEPT ![f] = Consulted(f)]
          /\ status' = [status EXCEPT ![f] = 302]
          /\ pc' = [pc EXCEPT ![f] = "collect"]
          /\ NoReturn
          /\ UNCHANGED <<url, guard, free, rtype, hops, snap, sends, merged>>
       \/ /\ PolicyInForce(f).kind = "limited"
          /\ hops[f] < PolicyInForce(f).max
          /\ consulted' = [consulted EXCEPT ![f] = Consulted(f)]
          /\ hops' = [hops EXCEPT ![f] = @ + 1]
          /\ \E h \in scope.targets : url' = [url EXCEPT ![f] = UrlString(h)]
          /\ pc' = [pc EXCEPT ![f] = "sending"]
          /\ NoReturn
          /\ UNCHANGED <<guard, free, rtype, snap, status, sends, merged>>
       \/ /\ PolicyInForce(f).kind = "limited"
          /\ hops[f] >= PolicyInForce(f).max
          /\ \E u \in {url[f], ""} :
                FetchReturn(f, ClientOf(f),
                            [ErrorFrom(u, "redirect-limit") EXCEPT !.consulted = Consulted(f)])
    /\ UNCHANGED <<waiters, jar, policy, used, everInjected, policyBy, views>>

\* lines 156-157: proxy takes the view of the jar and starts to iterate
CollectBegin(f) ==
    /\ pc[f] = "collect"
    /\ JarLockFree(ClientOf(f))
    /\ jarLock' = [jarLock EXCEPT ![ClientOf(f)] = {ByFetch(f)}]
    /\ OpBegins(StoreOf(f, ClientOf(f)), <<"collect", f>>)
    /\ pc' = [pc EXCEPT ![f] = "collecting"]
    /\ NoReturn
    /\ UNCHANGED <<scope, url, guard, free, waiters, jar, policy, rtype, hops, snap, status,
                   used, sends, everInjected, policyBy, consulted, merged, polLock, todo>>

\* lines 158-164: the pairs are collected, the view is dropped at the end of
\* the statement; the body is awaited next
CollectEnd(f) ==
    /\ pc[f] = "collecting"
    /\ \E sn \in Snapshots(jar[StoreOf(f, ClientOf(f))]) : snap' = [snap EXCEPT ![f] = sn]
    /\ OpEnds(StoreOf(f, ClientOf(f)), <<"collect", f>>)
    /\ jarLock' = [jarLock EXCEPT ![ClientOf(f)] = @ \ {ByFetch(f)}]
    /\ pc' = [pc EXCEPT ![f] = "body"]
    /\ NoReturn
    /\ UNCHANGED <<scope, url, guard, free, waiters, jar, policy, rtype, hops, status, used,
                   sends, everInjected, policyBy, consulted, merged, polLock, todo>>

NextGuards ==
    \E f \in Fetches :
        \/ Acquire(f)
        \/ Resumed(f)
        \/ Options(f)
        \/ TakeJar(f)
        \/ InsertBegin(f)
        \/ InsertEnd(f)
        \/ DropJar(f)
        \/ RedirectAndSend(f)
        \/ TransportMergeBegin(f)
        \/ TransportMergeEnd(f)
        \/ TransportFinal(f)
        \/ TransportRedirect(f)
        \/ CollectBegin(f)
        \/ CollectEnd(f)
        \/ TransportFails(f)
        \/ ProxyBody(f)
        \/ ProxyBodyFails(f)

\* concurrent fetches, followed view by view
SpecGuards == InitGuards /\ [][NextGuards]_vars


\* ------------------------------------------------------------- properties
InFlight(f) == pc[f] \in {"sending", "body"}
Returned == ret.kind # "none"

\* C1: pool exclusivity.  In every state no client is held by two fetches,
\* and no client of the free-list (the clients get() hands out) is held; only
\* fetches between acquisition and return hold one.
C1_PoolExclusive ==
    /\ \A f, g \in Fetches : f # g => guard[f] \cap guard[g] = {}
    /\ \A f \in Fetches : guard[f] \cap free = {}
    /\ \A f \in Fetches : Cardinality(guard[f]) = IF InFlight(f) THEN 1 ELSE 0

\* every client is held while one more fetch waits
C1_Witness ==
    /\ waiters # <<>>
    /\ \A c \in scope.clients : \E f \in Fetches : guard[f] = {c}


\* C2: release on every return path.  Whatever a fetch returned (a parse,
\* cookie, transport, redirect-limit or body error, or a Response), right after
\* the return its client is in the free-list and not held, and the first waiter,
\* if any, can take it; no finished fetch holds a client and no client is lost:
\* each is free or held by a fetch in flight.
C2_ReleasedOnReturn ==
    /\ Returned => /\ ret.client \subseteq free
                   /\ guard[ret.of] = {}
                   /\ waiters # <<>> => ENABLED PoolWake(Head(waiters))
    /\ \A f \in Fetches : pc[f] = "done" => guard[f] = {}
    /\ \A c \in scope.clients : c \in free \/ \E f \in Fetches : InFlight(f) /\ guard[f] = {c}

\* a fetch returned a body error while another fetch waits for a client
C2_Witness ==
    /\ Returned
    /\ ret.msg = "body"
    /\ waiters # <<>>

\* C3: no deadlock under over-subscription.  With more fetches than clients,
\* every fetch that is suspended (waiting for a client, a transport outcome or
\* a body) eventually returns, and suspending in get() returns no error.
C3_NoDeadlock ==
    /\ \A f \in Fetches : (pc[f] \in {"waiting", "sending", "body"}) ~> (pc[f] = "done")
    /\ [][\A f \in Fetches : pc[f] = "idle" /\ pc'[f] = "waiting" => ~Returned']_vars

\* a fetch is suspended in get() while every other fetch is in flight
C3_Witness ==
    \E f \in Fetches :
        /\ pc[f] = "waiting"
        /\ free = {}
        /\ \A g \in Fetches \ {f} : InFlight(g)

\* What fetch g, with client set cl, saw of other fetches: every cookie value
\* of another fetch in its snapshot, and every policy override of another fetch
\* its send consulted, comes from a fetch that held the same client.
SeesOnlyOwnClient(g, cl, cookies, cons) ==
    /\ \A n \in DOMAIN cookies : \A f \in Fetches \ {g} :
            cookies[n] = ValueOf(f) => used[f] = cl
    /\ \A cb \in cons : \A w \in cb[2] : w[1] # g => used[w[1]] = cl

\* C4: isolation between clients.  A fetch never finds in its cookie snapshot
\* (collected or returned) a cookie injected by a fetch that held a different
\* client, and the policy its send consults was never written by such a fetch.
C4_Isolation ==
    /\ \A g \in Fetches : InFlight(g) => SeesOnlyOwnClient(g, guard[g], snap[g], consulted[g])
    /\ Returned => SeesOnlyOwnClient(ret.of, ret.client, ret.cookies, ret.consulted)

\* two fetches hold different clients; f has injected a cookie and overridden
\* the policy of its client, g has consulted its policy and collected cookies
C4_Witness ==
    \E f, g \in Fetches :
        /\ f # g
        /\ InFlight(f)
        /\ pc[g] = "body"
        /\ guard[f] # guard[g]
        /\ \E k \in DOMAIN jar[ClientOf(f)] : jar[ClientOf(f)][k] = ValueOf(f)
        /\ \E r \in RedirectOpts : policyBy[ClientOf(f)] = {<<f, r>>}
        /\ consulted[g] # {}
        /\ snap[g] # EmptyCookies


\* the client of the fetch that returned last
RetClient == CHOOSE c \in ret.client : TRUE

\* the jar entry k holds a cookie injected by a fetch other than g, not
\* overwritten since
InjectedByOther(j, k, g) == \E f \in Fetches \ {g} : j[k] = ValueOf(f)

\* C5 as claimed: cookie persistence across calls.  A successful fetch on
\* client c returns in `cookies` every name fetches injected into c's jar, and
\* for each cookie an earlier fetch injected and nothing overwrote, that value.
C5_PersistenceAsClaimed ==
    (Returned /\ ret.kind = "ok") =>
        /\ everInjected[RetClient] \subseteq DOMAIN ret.cookies
        /\ \A k \in DOMAIN jar[RetClient] :
                InjectedByOther(jar[RetClient], k, ret.of)
                    => ret.cookies[k[2]] = jar[RetClient][k]

\* C5 (amended): cookie persistence across calls.  A successful fetch on c
\* returns every name fetches injected into c's jar; it returns the injected
\* value of a cookie nothing overwrote when the jar holds no other cookie of
\* that name (under another host).
C5_Persistence ==
    (Returned /\ ret.kind = "ok") =>
        /\ everInjected[RetClient] \subseteq DOMAIN ret.cookies
        /\ \A k \in DOMAIN jar[RetClient] :
                (/\ InjectedByOther(jar[RetClient], k, ret.of)
                 /\ \A k2 \in DOMAIN jar[RetClient] : k2[2] = k[2] => k2 = k)
                    => ret.cookies[k[2]] = jar[RetClient][k]

\* a Response carries the value an earlier fetch injected into the same jar
C5_Witness ==
    /\ Returned
    /\ ret.kind = "ok"
    /\ \E k \in DOMAIN jar[RetClient] :
        /\ InjectedByOther(jar[RetClient], k, ret.of)
        /\ ret.cookies[k[2]] = jar[RetClient][k]

\* the policy a client's slot holds when `by` is the latest redirect option
\* applied to it
ExpectedPolicy(by) ==
    IF by = {} THEN [kind |-> "limited", max |-> DefaultMaxHops]
    ELSE LET r == (CHOOSE w \in by : TRUE)[2]
         IN IF r.kind = "none" THEN [kind |-> "none", max |-> 0]
            ELSE [kind |-> "limited", max |-> r.max]

\* C6: no implicit redirect-policy reset.  The slot of each client always
\* holds the policy of the latest redirect option a fetch applied to it (the
\* default if there was none), whatever fetches ran or returned since, and
\* that is the policy a send on the client consults.
C6_NoImplicitReset ==
    /\ \A c \in Clients : policy[c] = ExpectedPolicy(policyBy[c])
    /\ \A f \in Fetches : \A cb \in consulted[f] :
            cb[1] = ExpectedPolicy(cb[2]) /\ cb[2] = policyBy[ClientOf(f)]
    /\ Returned => \A cb \in ret.consulted :
            cb[1] = ExpectedPolicy(cb[2]) /\ cb[2] = policyBy[RetClient]

\* the send of a fetch consults a Follow-none policy an earlier fetch wrote
C6_Witness ==
    \E f \in Fetches : \E cb \in consulted[f] : \E w \in cb[2] :
        /\ w[1] # f
        /\ pc[w[1]] = "done"
        /\ cb[1].kind = "none"

\* C7: cookie-injection failure.  A fetch that returns the error of a refused
\* cookie has issued no send, and every cookie it inserted before is in the jar
\* of its client with the value it gave.
C7_CookieFailure ==
    (Returned /\ ret.msg = "cookie") =>
        /\ ret.kind = "err"
        /\ ret.sends = 0
        /\ \A n \in ret.injected : \E h \in Hosts :
                /\ <<h, n>> \in DOMAIN jar[RetClient]
                /\ jar[RetClient][<<h, n>>] = ValueOf(ret.of)

\* a cookie was refused after another cookie of the request was inserted
C7_Witness ==
    /\ Returned
    /\ ret.msg = "cookie"
    /\ ret.injected # {}

\* C8: url parse failure has no effects.  The step in which a fetch returns a
\* parse error returns an Error without url, has sent nothing and changes no
\* jar and no policy slot; nor does the step in which a fetch suspends in get().
C8_ParseFailureNoEffect ==
    [][/\ (Returned' /\ ret'.msg = "parse")
            => /\ ret'.kind = "err"
               /\ ret'.url = ""
               /\ ret'.sends = 0
               /\ jar' = jar
               /\ policy' = policy
       /\ (\E f \in Fetches : pc[f] = "idle" /\ pc'[f] = "waiting")
            => jar' = jar /\ policy' = policy]_vars

\* a parse error is returned by a fetch whose client has cookies in its
\* jar and an overridden policy
C8_Witness ==
    /\ Returned
    /\ ret.msg = "parse"
    /\ jar[RetClient] # EmptyJar
    /\ policy[RetClient] # PolicyDefault

\* C9 as claimed: a fetch with a malformed url returns without waiting for a
\* client: no fetch whose url does not parse is suspended in get().
C9_ParseErrorWithoutWaiting ==
    \A f \in Fetches : pc[f] = "waiting" => UrlParses(url[f])

\* the send consulted a policy, on a redirect, that is Follow-none or was
\* written for the option redirect: {type: "none"}
FollowNone(cons) ==
    \E cb \in cons : cb[1].kind = "none" \/ \E w \in cb[2] : w[2].kind = "none"

\* C10 as claimed: Follow-none returns the redirect itself.  A fetch whose
\* send met a 3xx under Follow-none followed no hop and returns a Response
\* with status 3xx.
C10_FollowNoneAsClaimed ==
    (Returned /\ FollowNone(ret.consulted)) =>
        /\ ret.hops = 0
        /\ ret.kind = "ok"
        /\ ret.status = 302

\* C10 (amended): under Follow-none a 3xx ends the send with no hop followed
\* and is handed to proxy as the response; the fetch returns a Response with
\* that status, or the Error of a failed body read.
C10_FollowNone ==
    /\ \A f \in Fetches : FollowNone(consulted[f]) =>
            /\ pc[f] = "body"
            /\ status[f] = 302
            /\ hops[f] = 0
    /\ (Returned /\ FollowNone(ret.consulted)) =>
            /\ ret.hops = 0
            /\ \/ ret.kind = "ok" /\ ret.status = 302
               \/ ret.kind = "err" /\ ret.msg = "body"

\* a Response with status 302 is returned under Follow-none
C10_Witness ==
    /\ Returned
    /\ FollowNone(ret.consulted)
    /\ ret.kind = "ok"
    /\ ret.status = 302
    /\ ret.hops = 0

\* the hop limit the caller asked for, when `by` is the latest redirect option
\* applied to the client: the option's max, the default's without an option
LimitAsked(by) == ExpectedPolicy(by).max

\* C11: Follow-limited(max) hop bound.  The hop counter of a send starts at 0
\* and never exceeds the max in force; a fetch whose send met a redirect
\* under Follow-limited(max) followed at most max hops, returns a Response
\* only for a non-3xx answer, and returns the redirect-limit Error exactly
\* when a redirect arrived with max hops already followed (with max = 0: on
\* the first redirect).
C11_HopBound ==
    /\ \A f \in Fetches :
        /\ (pc[f] = "sending" /\ consulted[f] = {}) => hops[f] = 0
        /\ \A cb \in consulted[f] :
                ExpectedPolicy(cb[2]).kind = "limited" =>
                    /\ hops[f] >= 1
                    /\ hops[f] <= LimitAsked(cb[2])
    /\ Returned =>
        \A cb \in ret.consulted :
            ExpectedPolicy(cb[2]).kind = "limited" =>
                /\ ret.hops <= LimitAsked(cb[2])
                /\ ret.kind = "ok" => ret.status = 200
                /\ ret.msg = "redirect-limit" => ret.hops = LimitAsked(cb[2])
                /\ LimitAsked(cb[2]) = 0 => ret.msg = "redirect-limit"

\* one redirect was followed and the next one ended the fetch with the
\* redirect-limit Error
C11_Witness ==
    /\ Returned
    /\ ret.kind = "err"
    /\ ret.msg = "redirect-limit"
    /\ ret.hops = 1
    /\ \E cb \in ret.consulted : cb[1] = PolicyLimited(1)

\* the jar j holds one cookie only of the name of its cookie k
OnlyOfItsName(j, k) == \A k2 \in DOMAIN j : k2[2] = k[2] => k2 = k

\* C12 as claimed: cookies set during the exchange are in the same fetch's
\* snapshot.  Every cookie the jar took from a Set-Cookie header on a hop of
\* the exchange is in the `cookies` of that fetch's Response, under its name
\* and with its value.
C12_SetCookieInSnapshotAsClaimed ==
    (Returned /\ ret.kind = "ok") =>
        \A k \in ret.merged :
            /\ k[2] \in DOMAIN ret.cookies
            /\ ret.cookies[k[2]] = jar[RetClient][k]

\* C12 (amended): the jar is collected after the send resolved Ok, so every
\* cookie the jar took from a Set-Cookie header on any hop of the exchange is
\* in the jar at that moment and its name is in the `cookies` of that fetch's
\* Response; its value is there when the jar holds no other cookie of that
\* name.
C12_SetCookieInSnapshot ==
    /\ \A f \in Fetches :
        pc[f] = "body" =>
            \A k \in merged[f] :
                /\ k \in DOMAIN jar[ClientOf(f)]
                /\ k[2] \in DOMAIN snap[f]
                /\ OnlyOfItsName(jar[ClientOf(f)], k)
                        => snap[f][k[2]] = jar[ClientOf(f)][k]
    /\ (Returned /\ ret.kind = "ok") =>
        \A k \in ret.merged :
            /\ k[2] \in DOMAIN ret.cookies
            /\ OnlyOfItsName(jar[RetClient], k)
                    => ret.cookies[k[2]] = jar[RetClient][k]

\* a Response carries a cookie that the response to a followed redirect set
C12_Witness ==
    /\ Returned
    /\ ret.kind = "ok"
    /\ ret.hops = 1
    /\ \E k \in ret.merged :
        /\ UrlString(k[1]) # ret.url
        /\ ret.cookies[k[2]] = ServerValue

\* ck is missing no cookie of the jar j: each is there under its name with
\* its value
HoldsEveryCookie(ck, j) ==
    \A k \in DOMAIN j : k[2] \in DOMAIN ck /\ ck[k[2]] = j[k]

\* ck has an entry for each name of the jar j and for no other, each entry
\* with the value of a cookie of that name, the cookie's own when j holds one
\* cookie only of that name
HoldsEveryName(ck, j) ==
    /\ DOMAIN ck = {k[2] : k \in DOMAIN j}
    /\ \A n \in DOMAIN ck : \E k \in DOMAIN j : k[2] = n /\ ck[n] = j[k]
    /\ \A k \in DOMAIN j : OnlyOfItsName(j, k) => ck[k[2]] = j[k]

\* C13 as claimed: full-jar snapshot.  The `cookies` proxy collects, and the
\* Response returns, hold every cookie of the client's jar as a name -> value
\* pair: none is missing.
C13_FullJarAsClaimed ==
    /\ \A f \in Fetches :
        pc[f] = "body" => HoldsEveryCookie(snap[f], jar[ClientOf(f)])
    /\ (Returned /\ ret.kind = "ok") => HoldsEveryCookie(ret.cookies, jar[RetClient])

\* C13 (amended): full-jar snapshot.  The `cookies` proxy collects, and the
\* Response returns, have an entry for every cookie name of the client's jar,
\* whatever the cookie's host; the entry is the cookie's value, and of
\* several cookies of one name the value of one of them.
C13_FullJar ==
    /\ \A f \in Fetches :
        pc[f] = "body" => HoldsEveryName(snap[f], jar[ClientOf(f)])
    /\ (Returned /\ ret.kind = "ok") => HoldsEveryName(ret.cookies, jar[RetClient])

\* a Response to a request that was not redirected carries a cookie the jar
\* holds for another host than the requested one
C13_Witness ==
    /\ Returned
    /\ ret.kind = "ok"
    /\ ret.hops = 0
    /\ \E k \in DOMAIN jar[RetClient] :
        /\ UrlString(k[1]) # ret.url
        /\ OnlyOfItsName(jar[RetClient], k)
        /\ ret.cookies[k[2]] = jar[RetClient][k]


\* C14: jar atomicity.  On each jar at most one operation (an insert of
\* fetch, a Set-Cookie merge of the transport, a collection of proxy) is in
\* progress at any time and at most one exclusive view is held; a jar changes
\* only when the one operation in progress on it ends, and the cookies proxy
\* collects are those of a jar on which nothing but the collection was in
\* progress.
C14_JarAtomicity ==
    /\ [](\A c \in Clients : Cardinality(busy[c]) <= 1 /\ Cardinality(jarLock[c]) <= 1)
    /\ [][/\ \A c \in Clients :
                jar'[c] # jar[c] => Cardinality(busy[c]) = 1 /\ busy'[c] = {}
          /\ \A f \in Fetches :
                (pc[f] = "collecting" /\ pc'[f] = "body") =>
                    \E c \in Clients :
                        /\ busy[c] = {<<"collect", f>>}
                        /\ jar'[c] = jar[c]
                        /\ HoldsEveryName(snap'[f], jar[c])]_vars

\* proxy collects the jar of one client, which holds an injected cookie,
\* while a cookie is being inserted into, or merged into, the jar of the other
C14_Witness ==
    \E f \in Fetches, g \in Fetches :
        /\ pc[f] = "collecting"
        /\ jar[ClientOf(f)] # EmptyJar
        /\ pc[g] \in {"insert", "merging"}
        /\ busy[ClientOf(g)] # {}

\* fetch f acquires a client in this step
Acquires(f) == used[f] = {} /\ used'[f] # {}

\* C15: FIFO acquisition.  A fetch that starts waiting joins the end of the
\* wait queue, behind every fetch already waiting, and the queue holds the
\* waiting fetches only; whenever a fetch acquires a client while fetches are
\* waiting, it is the one that has waited longest and the others keep their
\* order: no later arrival, queued or new, acquires before an earlier waiter.
C15_FifoAcquisition ==
    [][\A f \in Fetches :
        /\ (pc[f] = "idle" /\ pc'[f] = "waiting") => waiters' = Append(waiters, f)
        /\ (Acquires(f) /\ waiters # <<>>)
                => /\ f = Head(waiters)
                   /\ waiters' = Tail(waiters)
        /\ pc'[f] = "waiting" <=> \E i \in 1..Len(waiters') : waiters'[i] = f]_vars

\* two fetches wait and a client was released: the one that arrived first can
\* take it, the other cannot
C15_Witness ==
    /\ Len(waiters) = 2
    /\ free # {}
    /\ ENABLED PoolWake(waiters[1])
    /\ ~ENABLED PoolWake(waiters[2])

\* C16: cancellation releases the client.  A fetch abandoned while it awaited
\* the send or the body holds no client afterwards: every client of the pool
\* is on the free-list or held by a fetch still in flight, and a fetch waiting
\* for a client can take a free one.
C16_CancellationReleases ==
    /\ \A f \in Fetches : pc[f] = "abandoned" => guard[f] = {}
    /\ \A c \in scope.clients :
            c \in free \/ \E f \in Fetches : InFlight(f) /\ guard[f] = {c}
    /\ (\E f \in Fetches : pc[f] = "abandoned") /\ waiters # <<>> /\ free # {}
            => ENABLED PoolWake(Head(waiters))

\* the client an abandoned fetch held is held by a fetch now in flight, which
\* has its response and awaits the body
C16_Witness ==
    \E f \in Fetches, g \in Fetches :
        /\ pc[f] = "abandoned"
        /\ pc[g] = "body"
        /\ guard[g] = used[f]

\* C17: transport failure is a value and is never retried.  No fetch calls
\* send() more than once; a fetch whose send failed returns an Error with the
\* failure's message and the url of the failing request, or none, has sent
\* once and is over.
C17_NoRetry ==
    /\ \A f \in Fetches : sends[f] <= 1
    /\ Returned =>
        /\ ret.sends <= 1
        /\ pc[ret.of] = "done"
        /\ ret.msg = "transport" =>
            /\ ret.kind = "err"
            /\ ret.sends = 1
            /\ ret.url = "" \/ UrlParses(ret.url)

\* the request to the target of a followed redirect failed, and the Error
\* carries that url
C17_Witness ==
    /\ Returned
    /\ ret.kind = "err"
    /\ ret.msg = "transport"
    /\ ret.hops = 1
    /\ ret.url = "http://b/"
    /\ ret.sends = 1

\* C18: body mode mapping.  A fetch that has its response returns, for
\* discard, a Response with body absent and nothing else (no body is read, so
\* no read can fail); for binary a Response with a Binary body and for text
\* one with a Text body, or the Error of the failed read.
C18_BodyModes ==
    /\ [](\A f \in Fetches :
            (pc[f] = "body" /\ rtype[f] = "discard") => ~ENABLED ProxyBodyFails(f))
    /\ [][\A f \in Fetches :
            (pc[f] = "body" /\ pc'[f] = "done") =>
                /\ ret'.of = f
                /\ ret'.kind \in {"ok", "err"}
                /\ rtype[f] = "discard" => ret'.kind = "ok" /\ ret'.body = "absent"
                /\ (ret'.kind = "ok" /\ rtype[f] = "binary") => ret'.body = "binary"
                /\ (ret'.kind = "ok" /\ rtype[f] = "text") => ret'.body = "text"
                /\ ret'.kind = "err"
                        => ret'.msg = "body" /\ rtype[f] \in {"binary", "text"}]_vars

\* a Response without body is returned for a response that was received
C18_Witness ==
    /\ Returned
    /\ ret.kind = "ok"
    /\ ret.status = 200
    /\ ret.body = "absent"

\* C19: injection failure leaves the redirect policy untouched.  The step in
\* which a fetch returns the error of a refused cookie, from its acquisition
\* of the client on, changes no policy slot, whatever options.redirect it
\* carried.
C19_InjectionFailureKeepsPolicy ==
    [][(Returned' /\ ret'.msg = "cookie")
            => /\ policy' = policy
               /\ policyBy' = policyBy
               /\ \A w \in policyBy'[CHOOSE c \in ret'.client : TRUE] : w[1] # ret'.of]_vars

\* a fetch carrying cookies and a redirect override returned the error of a
\* refused cookie, and the slot of its client holds another policy than the
\* override
C19_Witness ==
    /\ Returned
    /\ ret.msg = "cookie"
    /\ ret.redirect.set
    /\ ret.injected # {}
    /\ policy[RetClient] # PolicyOf(ret.redirect)

\* C20: no guard held across a suspension.  While a fetch awaits its send or
\* the body it holds no exclusive view of a jar or of a policy slot, and the
\* transport running its send can always take the view of the jar for a merge
\* and read the policy slot on a redirect.
C20_NoGuardAcrossAwait ==
    \A f \in Fetches :
        /\ pc[f] \in {"sending", "merging", "hop", "body"} =>
                \A c \in Clients : ByFetch(f) \notin jarLock[c] \cup polLock[c]
        /\ pc[f] = "sending" => ENABLED TransportMergeBegin(f)
        /\ pc[f] = "hop" => ENABLED TransportRedirect(f)

\* the transport merges Set-Cookie headers into the jar during the send of a
\* fetch that inserted a cookie and wrote the policy slot before sending
C20_Witness ==
    \E f \in Fetches :
        /\ pc[f] = "merging"
        /\ jarLock[ClientOf(f)] = {BySend(f)}
        /\ \E k \in DOMAIN jar[ClientOf(f)] : jar[ClientOf(f)][k] = ValueOf(f)
        /\ \E w \in policyBy[ClientOf(f)] : w[1] = f

====
